---- MODULE Spec2Model ----
(***************************************************************************)
(* Model of web_app.py: a Flask service with four routes (GET /health,     *)
(* POST /user, GET /user/<id>, GET /users) over one PostgreSQL table.      *)
(* Each request runs in its own thread.  A driver call either returns or   *)
(* raises, and the handler's "except Exception" clause turns any raise     *)
(* into the error response.  A step of a thread is one call that reads or  *)
(* writes the database, together with the calls around it that touch only  *)
(* the thread's own cursor and locals.                                     *)
(***************************************************************************)
EXTENDS Integers, Sequences, FiniteSets, TLC

\* Number of requests the service receives in one behaviour.
MaxRequests == 2

\* Request threads running concurrently.
Procs == {1, 2}

\* request.args.get('limit', default=10, type=int) / ('offset', default=0, ...)
DefaultLimit == 10
DefaultOffset == 0

(***************************************************************************)
(* Strings are sequences of characters.                                    *)
(***************************************************************************)
SP == " "

RECURSIVE lstrip(_)
lstrip(s) == IF s # <<>> /\ Head(s) = SP THEN lstrip(Tail(s)) ELSE s

RECURSIVE rstrip(_)
rstrip(s) ==
    IF s # <<>> /\ s[Len(s)] = SP THEN rstrip(SubSeq(s, 1, Len(s) - 1)) ELSE s

\* str.strip()
strip(s) == rstrip(lstrip(s))

(***************************************************************************)
(* JSON request bodies.  A value is a string or a number (Null stands for   *)
(* the value of an absent key).  A body is malformed text, or a JSON null, *)
(* number, array of strings or object.  keys: the keys of an object / the  *)
(* elements of an array.                                                   *)
(***************************************************************************)
Keys == {"first_name", "last_name"}

Str(s) == [t |-> "str", s |-> s]
Num == [t |-> "num", s |-> <<>>]
Null == [t |-> "null", s |-> <<>>]

\* the values tried for each key: blank, a name with spaces around it, a number
FirstNames == { Str(<<SP>>), Str(<<SP, "a", SP>>), Num }
LastNames == { Str(<<SP, SP>>), Str(<<"b", SP>>), Num }

Body(t, ks, f, l) == [t |-> t, keys |-> ks, first_name |-> f, last_name |-> l]

ObjectBodies ==
    { Body("object", ks, f, l) :
        ks \in SUBSET Keys, f \in FirstNames \cup {Null},
        l \in LastNames \cup {Null} }

\* An absent key carries no value, a present one carries one.
WellFormed(b) ==
    /\ "first_name" \in b.keys <=> b.first_name # Null
    /\ "last_name" \in b.keys <=> b.last_name # Null

Bodies ==
    { b \in ObjectBodies : WellFormed(b) }
    \cup { Body("array", ks, Null, Null) : ks \in {{}, {"first_name"}, Keys} }
    \cup { Body("malformed", {}, Null, Null),
           Body("null", {}, Null, Null),
           Body("num", {}, Null, Null) }

(***************************************************************************)
(* create_user, lines 54-65: parsing and validation of the body.           *)
(***************************************************************************)
\* request.get_json(): a body that does not parse raises BadRequest, an
\* Exception like any other for the except clause of line 90.
get_json_raises(b) == b.t = "malformed"

\* "not data"; the number body stands for a number other than 0
Falsy(b) == b.t = "null" \/ (b.t \in {"object", "array"} /\ b.keys = {})

\* "key in data" raises TypeError when data is a number.
in_raises(b) == b.t = "num"

\* data[key] raises TypeError when data is a list (the index is a string).
item_raises(b) == b.t # "object"

\* value.strip() raises AttributeError when the value is not a string.
strip_raises(v) == v.t # "str"

Outcome(o, f, l) == [out |-> o, first_name |-> f, last_name |-> l]

\* The outcome of lines 54-65: "raise" (to the except clause), "required"
\* (line 59), "empty" (line 65) or "ok" with the trimmed names.
Validate(b) ==
    IF get_json_raises(b) THEN Outcome("raise", <<>>, <<>>)
    ELSE IF Falsy(b) THEN Outcome("required", <<>>, <<>>)
    ELSE IF in_raises(b) THEN Outcome("raise", <<>>, <<>>)
    ELSE IF "first_name" \notin b.keys \/ "last_name" \notin b.keys
        THEN Outcome("required", <<>>, <<>>)
    ELSE IF item_raises(b) THEN Outcome("raise", <<>>, <<>>)
    ELSE IF strip_raises(b.first_name) \/ strip_raises(b.last_name)
        THEN Outcome("raise", <<>>, <<>>)
    ELSE IF strip(b.first_name.s) = <<>> \/ strip(b.last_name.s) = <<>>
        THEN Outcome("empty", <<>>, <<>>)
    ELSE Outcome("ok", strip(b.first_name.s), strip(b.last_name.s))

(***************************************************************************)
(* get_all_users, lines 131-132: request.args.get(key, default, type=int). *)
(* A query argument is absent or a string; int() accepts an optional sign  *)
(* followed by digits.                                                     *)
(***************************************************************************)
Digits == {"0", "1", "2", "3", "4", "5", "6", "7", "8", "9"}

DigitVal(c) ==
    CASE c = "0" -> 0 [] c = "1" -> 1 [] c = "2" -> 2 [] c = "3" -> 3
      [] c = "4" -> 4 [] c = "5" -> 5 [] c = "6" -> 6 [] c = "7" -> 7
      [] c = "8" -> 8 [] c = "9" -> 9

AllDigits(s) == s # <<>> /\ \A i \in 1..Len(s) : s[i] \in Digits

RECURSIVE Magnitude(_)
Magnitude(s) ==
    IF s = <<>> THEN 0
    ELSE 10 * Magnitude(SubSeq(s, 1, Len(s) - 1)) + DigitVal(s[Len(s)])

\* int(s) raises ValueError
int_raises(s) ==
    IF s # <<>> /\ Head(s) = "-" THEN ~AllDigits(Tail(s)) ELSE ~AllDigits(s)

\* int(s)
int(s) == IF Head(s) = "-" THEN 0 - Magnitude(Tail(s)) ELSE Magnitude(s)

Arg(s) == [present |-> TRUE, s |-> s]
NoArg == [present |-> FALSE, s |-> <<>>]

\* a faulty args_get: a value that is no integer counts as 0
args_get_zero_on_error(a, default) ==
    IF ~a.present THEN default
    ELSE IF int_raises(a.s) THEN 0
    ELSE int(a.s)

\* MultiDict.get(key, default, type=int): the default when the key is absent
\* or the conversion raises ValueError.
args_get(a, default) ==
    IF ~a.present THEN default
    ELSE IF int_raises(a.s) THEN default
    ELSE int(a.s)

\* the query strings tried: <<limit, offset>>
QueryArgs ==
    { <<NoArg, NoArg>>,
      <<Arg(<<"2">>), Arg(<<"0">>)>>,
      <<Arg(<<"2">>), Arg(<<"2">>)>>,
      <<Arg(<<"1">>), Arg(<<"1">>)>>,
      <<Arg(<<"-", "1">>), NoArg>>,
      <<NoArg, Arg(<<"-", "1">>)>>,
      <<Arg(<<"x">>), Arg(<<"1">>)>>,
      <<Arg(<<"1">>), Arg(<<"1", "x">>)>> }

(***************************************************************************)
(* The users table and the two SELECT statements.                          *)
(***************************************************************************)
Row(i, f, l, t) == [id |-> i, first_name |-> f, last_name |-> l, created_at |-> t]

Min(a, b) == IF a < b THEN a ELSE b

\* ORDER BY id
RECURSIVE OrderById(_)
OrderById(rows) ==
    IF rows = {} THEN <<>>
    ELSE LET r == CHOOSE x \in rows : \A y \in rows : x.id <= y.id
         IN <<r>> \o OrderById(rows \ {r})

\* a faulty LimitOffset: the page always starts at the first row
LimitOffset_from_first_row(rows, limit, offset) ==
    SubSeq(rows, 1, Min(Len(rows), limit))

\* LIMIT limit OFFSET offset over the ordered rows
LimitOffset(rows, limit, offset) ==
    SubSeq(rows, offset + 1, Min(Len(rows), offset + limit))

\* PostgreSQL rejects a negative LIMIT or OFFSET.
select_page_raises(limit, offset) == limit < 0 \/ offset < 0

\* SELECT ... FROM users ORDER BY id LIMIT %s OFFSET %s
select_page(rows, limit, offset) == LimitOffset(OrderById(rows), limit, offset)

\* SELECT ... FROM users WHERE id = %s
select_by_id(rows, user_id) == OrderById({r \in rows : r.id = user_id})

(***************************************************************************)
(* JSON responses.                                                         *)
(***************************************************************************)
\* datetime.isoformat()
isoformat(t) == <<"iso", t>>

\* the dict of lines 83-88, 116-121 and 150-155
user_json(u) ==
    [id |-> u.id, first_name |-> u.first_name, last_name |-> u.last_name,
     created_at |-> isoformat(u.created_at)]

Error(msg) == [error |-> msg]

Response(status, body) == [status |-> status, body |-> body]

NoResponse == Response(0, Error(""))

(***************************************************************************)
(* State.                                                                  *)
(***************************************************************************)
VARIABLES
    dbUp,      \* the database accepts connections
    table,     \* committed rows of the users table
    seq,       \* next value of the id sequence
    now,       \* the clock: one tick per request received
    pc,        \* per thread: position in its handler
    req,       \* per thread: the request being served
    conn,      \* per thread: "none", "open" or "closed" (close() was called)
    loc,       \* per thread: the handler's local variables, and the rows
               \* its SELECT saw (snapshot)
    resp,      \* per thread: the response returned
    dbfail,    \* per thread: a driver call of this request raised
    known,     \* per thread serving POST /user: the 201 bodies returned
               \* before its request began
    created,   \* the bodies of all 201 responses so far, in order
    leaked     \* connections left open by handlers that have returned

vars == <<dbUp, table, seq, now, pc, req, conn, loc, resp, dbfail, known,
          created, leaked>>

Request(kind, body, user_id, limit, offset) ==
    [kind |-> kind, body |-> body, user_id |-> user_id,
     limit |-> limit, offset |-> offset, up |-> dbUp]

NoBody == Body("null", {}, Null, Null)
NoRequest == [kind |-> "none", body |-> NoBody, user_id |-> 0,
              limit |-> NoArg, offset |-> NoArg, up |-> TRUE]

Locals(f, l, limit, offset) ==
    [first_name |-> f, last_name |-> l, limit |-> limit, offset |-> offset,
     user |-> <<>>, users |-> <<>>, snapshot |-> {}]
NoLocals == Locals(<<>>, <<>>, 0, 0)

InternalError == Response(500, Error("Internal server error"))

\* Rows that earlier POST /user requests left in the database.
SeedRows == { Row(1, <<"a">>, <<"b">>, 0), Row(2, <<"b">>, <<"b">>, 0) }

\* The service starts against an empty table or against the seeded one; the
\* sequence stands one past the ids handed out.
Init ==
    /\ dbUp = TRUE
    /\ table \in { {}, SeedRows }
    /\ seq = Cardinality(table) + 1
    /\ now = 0
    /\ pc = [p \in Procs |-> "idle"]
    /\ req = [p \in Procs |-> NoRequest]
    /\ conn = [p \in Procs |-> "none"]
    /\ loc = [p \in Procs |-> NoLocals]
    /\ resp = [p \in Procs |-> NoResponse]
    /\ dbfail = [p \in Procs |-> FALSE]
    /\ known = [p \in Procs |-> <<>>]
    /\ created = [i \in 1..Cardinality(table) |-> user_json(OrderById(table)[i])]
    /\ leaked = 0

(***************************************************************************)
(* Shared pieces of the handlers.                                          *)
(***************************************************************************)
\* No response is waiting to be sent.  Sending one touches only the thread
\* that returned it, so it is taken before any other step.
Quiet == \A q \in Procs : pc[q] # "done"

\* Thread p is about to run the step labelled at.
At(p, at) == Quiet /\ pc[p] = at

\* A thread takes the next request: fresh locals, the clock ticks.
Receive(p, r, l, k) ==
    /\ At(p, "idle")
    /\ now < MaxRequests
    /\ now' = now + 1
    /\ req' = [req EXCEPT ![p] = r]
    /\ loc' = [loc EXCEPT ![p] = l]
    /\ known' = [known EXCEPT ![p] = k]

\* The handler goes on to its next step with its connection open.
Goto(p, next) ==
    /\ pc' = [pc EXCEPT ![p] = next]
    /\ conn' = [conn EXCEPT ![p] = "open"]
    /\ UNCHANGED <<resp, leaked>>

\* The handler returns response r with its connection in state c; no later
\* code closes a connection that is still open.
Return(p, r, c) ==
    /\ pc' = [pc EXCEPT ![p] = "done"]
    /\ conn' = [conn EXCEPT ![p] = c]
    /\ resp' = [resp EXCEPT ![p] = r]
    /\ leaked' = IF c = "open" THEN leaked + 1 ELSE leaked

\* No driver call of the request has raised so far.
NoFault(p) == dbfail' = [dbfail EXCEPT ![p] = FALSE]

\* A driver call raises: the except clause logs and returns r.
DriverRaises(p, r, c) ==
    /\ dbfail' = [dbfail EXCEPT ![p] = TRUE]
    /\ Return(p, r, c)

\* psycopg2.connect succeeds exactly when the database is reachable.
connect_raises == ~dbUp

\* The connection after the named call raised: conn.close() has been called
\* only when it is conn.close() itself that raised.
ConnAfter(call) == IF call = "conn.close" THEN "closed" ELSE "open"

(***************************************************************************)
(* The database becomes unreachable, or reachable again.                   *)
(***************************************************************************)
DbDown ==
    /\ Quiet
    /\ dbUp
    /\ dbUp' = FALSE
    /\ UNCHANGED <<table, seq, now, pc, req, conn, loc, resp, dbfail, known,
                   created, leaked>>

DbUp ==
    /\ Quiet
    /\ ~dbUp
    /\ dbUp' = TRUE
    /\ UNCHANGED <<table, seq, now, pc, req, conn, loc, resp, dbfail, known,
                   created, leaked>>

(***************************************************************************)
(* GET /health                                                             *)
(***************************************************************************)
Healthy == [status |-> "healthy", timestamp |-> isoformat(now)]
Unhealthy == [status |-> "unhealthy", error |-> "OperationalError"]

\* a faulty health_status: the probe reports healthy whatever happened
health_status_always_ok(raised) == Response(200, Healthy)

\* lines 45 and 48
health_status(raised) ==
    IF raised THEN Response(503, Unhealthy) ELSE Response(200, Healthy)

\* lines 42-48: connect, close, respond
health_check(p) ==
    /\ Receive(p, Request("health", NoBody, 0, NoArg, NoArg), NoLocals, <<>>)
    /\ IF connect_raises
       THEN DriverRaises(p, health_status(TRUE), "none")
       ELSE \E raised \in {"none", "conn.close"} :
              IF raised = "none"
              THEN Return(p, health_status(FALSE), "closed") /\ NoFault(p)
              ELSE DriverRaises(p, health_status(TRUE), ConnAfter(raised))
    /\ UNCHANGED <<dbUp, table, seq, created>>

(***************************************************************************)
(* POST /user                                                              *)
(***************************************************************************)
Required == Response(400, Error("first_name and last_name are required"))
Empty == Response(400, Error("first_name and last_name cannot be empty"))

\* a faulty nextval: the id is derived from the committed rows
nextval_from_rows == Cardinality(table) + 1

\* the id the sequence behind users.id hands to an INSERT
nextval == seq

\* lines 54-69: validation, connect, cursor
create_user_connect(p) ==
    /\ \E b \in Bodies :
         LET v == Validate(b) IN
         /\ Receive(p, Request("create", b, 0, NoArg, NoArg),
                    Locals(v.first_name, v.last_name, 0, 0), created)
         /\ CASE v.out = "raise" -> Return(p, InternalError, "none") /\ NoFault(p)
              [] v.out = "required" -> Return(p, Required, "none") /\ NoFault(p)
              [] v.out = "empty" -> Return(p, Empty, "none") /\ NoFault(p)
              [] v.out = "ok" ->
                   IF connect_raises
                   THEN DriverRaises(p, InternalError, "none")
                   ELSE \E raised \in {"none", "conn.cursor"} :
                          IF raised = "none"
                          THEN Goto(p, "create_execute") /\ NoFault(p)
                          ELSE DriverRaises(p, InternalError, ConnAfter(raised))
    /\ UNCHANGED <<dbUp, table, seq, created>>

\* lines 71-76: INSERT ... RETURNING and fetchone; the row is not committed
create_user_execute(p) ==
    /\ At(p, "create_execute")
    /\ \E raised \in {"none", "cur.execute", "cur.fetchone"} :
         /\ IF raised = "cur.execute" THEN UNCHANGED seq ELSE seq' = seq + 1
         /\ IF raised = "none"
            THEN /\ loc' = [loc EXCEPT ![p].user =
                       <<Row(nextval, loc[p].first_name, loc[p].last_name, now)>>]
                 /\ Goto(p, "create_commit")
                 /\ UNCHANGED dbfail
            ELSE /\ DriverRaises(p, InternalError, ConnAfter(raised))
                 /\ UNCHANGED loc
    /\ UNCHANGED <<dbUp, table, now, req, known, created>>

\* lines 77-92: commit, cur.close, conn.close, the 201 response
create_user_commit(p) ==
    /\ At(p, "create_commit")
    /\ \E raised \in {"none", "conn.commit", "cur.close", "conn.close"} :
         /\ IF raised = "conn.commit"
            THEN UNCHANGED table
            ELSE table' = table \cup {loc[p].user[1]}
         /\ IF raised = "none"
            THEN /\ Return(p, Response(201, user_json(loc[p].user[1])), "closed")
                 /\ created' = Append(created, user_json(loc[p].user[1]))
                 /\ UNCHANGED dbfail
            ELSE /\ DriverRaises(p, InternalError, ConnAfter(raised))
                 /\ UNCHANGED created
    /\ UNCHANGED <<dbUp, seq, now, req, loc, known>>

(***************************************************************************)
(* GET /user/<int:user_id>                                                 *)
(***************************************************************************)
NotFound == Response(404, Error("User not found"))

\* lines 110-121
get_user_response(user) ==
    IF user = <<>> THEN NotFound ELSE Response(200, user_json(user[1]))

\* lines 98-99: connect, cursor; the ids asked for reach one past every id
\* handed out
get_user_connect(p) ==
    /\ \E id \in 1..seq :
         Receive(p, Request("get", NoBody, id, NoArg, NoArg), NoLocals, <<>>)
    /\ IF connect_raises
       THEN DriverRaises(p, InternalError, "none")
       ELSE \E raised \in {"none", "conn.cursor"} :
              IF raised = "none"
              THEN Goto(p, "get_execute") /\ NoFault(p)
              ELSE DriverRaises(p, InternalError, ConnAfter(raised))
    /\ UNCHANGED <<dbUp, table, seq, created>>

\* lines 101-125: SELECT, fetchone, cur.close, conn.close, the response
get_user_execute(p) ==
    /\ At(p, "get_execute")
    /\ \E raised \in {"none", "cur.execute", "cur.fetchone", "cur.close",
                      "conn.close"} :
         LET user == select_by_id(table, req[p].user_id) IN
         IF raised = "none"
         THEN /\ loc' = [loc EXCEPT ![p].user = user, ![p].snapshot = table]
              /\ Return(p, get_user_response(user), "closed")
              /\ UNCHANGED dbfail
         ELSE /\ DriverRaises(p, InternalError, ConnAfter(raised))
              /\ UNCHANGED loc
    /\ UNCHANGED <<dbUp, table, seq, now, req, known, created>>

(***************************************************************************)
(* GET /users                                                              *)
(***************************************************************************)
Envelope(users, limit, offset) ==
    [users |-> users, limit |-> limit, offset |-> offset]

\* lines 148-159
get_all_users_response(users, limit, offset) ==
    Response(200, Envelope([i \in 1..Len(users) |-> user_json(users[i])],
                           limit, offset))

\* lines 131-135: the query arguments, connect, cursor
get_all_users_connect(p) ==
    /\ \E q \in QueryArgs :
         Receive(p, Request("list", NoBody, 0, q[1], q[2]),
                 Locals(<<>>, <<>>, args_get(q[1], DefaultLimit),
                        args_get(q[2], DefaultOffset)), <<>>)
    /\ IF connect_raises
       THEN DriverRaises(p, InternalError, "none")
       ELSE \E raised \in {"none", "conn.cursor"} :
              IF raised = "none"
              THEN Goto(p, "list_execute") /\ NoFault(p)
              ELSE DriverRaises(p, InternalError, ConnAfter(raised))
    /\ UNCHANGED <<dbUp, table, seq, created>>

\* lines 137-163: SELECT, fetchall, cur.close, conn.close, the envelope.
\* A statement the database rejects raises in cur.execute.
get_all_users_execute(p) ==
    /\ At(p, "list_execute")
    /\ IF select_page_raises(loc[p].limit, loc[p].offset)
       THEN /\ Return(p, InternalError, ConnAfter("cur.execute"))
            /\ UNCHANGED <<dbfail, loc>>
       ELSE \E raised \in {"none", "cur.execute", "cur.fetchall", "cur.close",
                           "conn.close"} :
            LET users == select_page(table, loc[p].limit, loc[p].offset) IN
            IF raised = "none"
            THEN /\ loc' = [loc EXCEPT ![p].users = users, ![p].snapshot = table]
                 /\ Return(p, get_all_users_response(users, loc[p].limit,
                                                     loc[p].offset), "closed")
                 /\ UNCHANGED dbfail
            ELSE /\ DriverRaises(p, InternalError, ConnAfter(raised))
                 /\ UNCHANGED loc
    /\ UNCHANGED <<dbUp, table, seq, now, req, known, created>>

(***************************************************************************)
(* Flask sends the response the handler returned; the handler's frame and  *)
(* its locals are gone and the thread is free for the next request.        *)
(***************************************************************************)
Send(p) ==
    /\ pc[p] = "done"
    /\ pc' = [pc EXCEPT ![p] = "idle"]
    /\ req' = [req EXCEPT ![p] = NoRequest]
    /\ conn' = [conn EXCEPT ![p] = "none"]
    /\ loc' = [loc EXCEPT ![p] = NoLocals]
    /\ resp' = [resp EXCEPT ![p] = NoResponse]
    /\ dbfail' = [dbfail EXCEPT ![p] = FALSE]
    /\ known' = [known EXCEPT ![p] = <<>>]
    /\ UNCHANGED <<dbUp, table, seq, now, created, leaked>>

(***************************************************************************)
(* The service.                                                            *)
(***************************************************************************)
Next ==
    \/ DbDown
    \/ DbUp
    \/ \E p \in Procs : health_check(p)
    \/ \E p \in Procs : create_user_connect(p)
    \/ \E p \in Procs : create_user_execute(p)
    \/ \E p \in Procs : create_user_commit(p)
    \/ \E p \in Procs : get_user_connect(p)
    \/ \E p \in Procs : get_user_execute(p)
    \/ \E p \in Procs : get_all_users_connect(p)
    \/ \E p \in Procs : get_all_users_execute(p)
    \/ \E p \in Procs : Send(p)

Spec == Init /\ [][Next]_vars

(***************************************************************************)
(* Properties.                                                             *)
(***************************************************************************)
\* Thread p's handler for the given route has just returned resp[p].
Returned(p, kind) == pc[p] = "done" /\ req[p].kind = kind

\* Thread p's handler returns in this step.
Returns(p) == pc[p] # "done" /\ pc'[p] = "done"

Blank(s) == \A i \in 1..Len(s) : s[i] = SP

\* t is s without its leading and trailing spaces.
TrimOf(s, t) ==
    /\ t # <<>> => t[1] # SP /\ t[Len(t)] # SP
    /\ \E i \in 0..Len(s) :
         /\ i + Len(t) <= Len(s)
         /\ SubSeq(s, i + 1, i + Len(t)) = t
         /\ Blank(SubSeq(s, 1, i))
         /\ Blank(SubSeq(s, i + Len(t) + 1, Len(s)))

HasBothKeys(b) == b.t = "object" /\ Keys \subseteq b.keys

BlankString(v) == v.t = "str" /\ Blank(v.s)

ValidNames(b) ==
    /\ HasBothKeys(b)
    /\ b.first_name.t = "str" /\ ~Blank(b.first_name.s)
    /\ b.last_name.t = "str" /\ ~Blank(b.last_name.s)

\* The query argument is absent or an integer / is present and no integer.
IntegerOrAbsent(a) == ~a.present \/ ~int_raises(a.s)
NotInteger(a) == a.present /\ int_raises(a.s)

\* The value a well-formed argument stands for.
Effective(a, default) == IF a.present THEN int(a.s) ELSE default

\* users is the page (limit, offset) of the rows in ascending id order.
PageOf(users, rows, limit, offset) ==
    /\ Len(users) = Min(limit, IF Cardinality(rows) > offset
                               THEN Cardinality(rows) - offset ELSE 0)
    /\ \A i \in 1..Len(users) :
         /\ \E r \in rows : users[i] = user_json(r)
         /\ Cardinality({r \in rows : r.id < users[i].id}) = offset + i - 1

\* C1: every handler has released its connection when it returns, on every
\* exit path; no finished request leaves a connection open.
C1_ConnectionsReleased ==
    /\ leaked = 0
    /\ \A p \in Procs : pc[p] = "done" => conn[p] # "open"

\* C2: the table changes only in the step in which POST /user returns 201,
\* and then by exactly one added row; a request answered otherwise leaves
\* it unchanged; no row is ever modified or removed.
C2_TableChangesOnlyOn201 ==
    [][ /\ table \subseteq table'
        /\ \A p \in Procs :
             Returns(p) /\ resp'[p].status # 201 =>
                 /\ table' = table
                 /\ req'[p].kind = "create" /\ loc'[p].user # <<>> =>
                        loc'[p].user[1] \notin table'
        /\ table' # table =>
             /\ Cardinality(table') = Cardinality(table) + 1
             /\ \E p \in Procs :
                  Returns(p) /\ req'[p].kind = "create" /\ resp'[p].status = 201
      ]_vars

\* C3: a POST /user whose body does not parse, or lacks first_name or
\* last_name, is answered 400 "first_name and last_name are required" and
\* inserts no row.
C3_MissingFieldsRequired ==
    \A p \in Procs :
        Returned(p, "create")
        /\ (req[p].body.t = "malformed" \/ ~(Keys \subseteq req[p].body.keys))
        => resp[p] = Required /\ loc[p].user = <<>>

\* C4: a body with both keys and a blank first_name or last_name is answered
\* 400 "cannot be empty"; a body missing one key whose other name is blank is
\* answered 400 "are required"; neither acquires a connection.
C4_ValidationOrder ==
    \A p \in Procs :
        Returned(p, "create") =>
            LET b == req[p].body IN
            /\ HasBothKeys(b)
               /\ (BlankString(b.first_name) \/ BlankString(b.last_name))
               => resp[p] = Empty /\ conn[p] = "none"
            /\ b.t = "object" /\ Cardinality(b.keys) = 1
               /\ (BlankString(b.first_name) \/ BlankString(b.last_name))
               => resp[p] = Required /\ conn[p] = "none"

\* C5: with no database failure, a POST /user with names that are not blank
\* is answered 201 with the trimmed names and an id greater than every id
\* returned by a create that completed before the request began; no two 201
\* responses carry the same id.
C5_CreateReturnsFreshId ==
    /\ \A p \in Procs :
         Returned(p, "create") =>
             LET b == req[p].body IN
             /\ ValidNames(b) /\ ~dbfail[p] => resp[p].status = 201
             /\ resp[p].status = 201 =>
                  /\ ValidNames(b)
                  /\ TrimOf(b.first_name.s, resp[p].body.first_name)
                  /\ TrimOf(b.last_name.s, resp[p].body.last_name)
                  /\ \A i \in 1..Len(known[p]) : known[p][i].id < resp[p].body.id
    /\ \A i, j \in 1..Len(created) : created[i].id = created[j].id => i = j

\* C5 witness: a create returns 201 after another create of this run had
\* completed before it began.
C5_Witness ==
    \E p \in Procs :
        /\ Returned(p, "create") /\ resp[p].status = 201
        /\ \E i \in 1..Len(known[p]) : known[p][i].created_at # isoformat(0)

\* C6: with no database failure, GET /user/<id> is answered 200 with the body
\* of the 201 response that returned the id, and 404 "User not found" for an
\* id no 201 response has returned.
C6_GetMatchesCreate ==
    \A p \in Procs :
        Returned(p, "get") /\ ~dbfail[p] =>
            IF \E i \in 1..Len(created) : created[i].id = req[p].user_id
            THEN /\ resp[p].status = 200
                 /\ \E i \in 1..Len(created) : created[i] = resp[p].body
                 /\ resp[p].body.id = req[p].user_id
            ELSE resp[p] = NotFound

\* The envelope of thread p is the page for the given limit and offset.
ListAnswers(p, limit, offset) ==
    /\ resp[p].status = 200
    /\ resp[p].body.limit = limit
    /\ resp[p].body.offset = offset
    /\ PageOf(resp[p].body.users, loc[p].snapshot, limit, offset)

\* C7 as stated: with no database failure, for every integer limit and
\* offset (10 and 0 when absent) GET /users is answered 200 with the page in
\* ascending id order and the effective limit and offset.
C7_ListPageAnyInteger ==
    \A p \in Procs :
        Returned(p, "list") /\ ~dbfail[p]
        /\ IntegerOrAbsent(req[p].limit) /\ IntegerOrAbsent(req[p].offset)
        => ListAnswers(p, Effective(req[p].limit, DefaultLimit),
                          Effective(req[p].offset, DefaultOffset))

\* C7 amended: the same for every limit and offset that is not negative.
C7_ListPageNonNegative ==
    \A p \in Procs :
        Returned(p, "list") /\ ~dbfail[p]
        /\ IntegerOrAbsent(req[p].limit) /\ IntegerOrAbsent(req[p].offset)
        /\ Effective(req[p].limit, DefaultLimit) >= 0
        /\ Effective(req[p].offset, DefaultOffset) >= 0
        => ListAnswers(p, Effective(req[p].limit, DefaultLimit),
                          Effective(req[p].offset, DefaultOffset))

\* C7 witness: a page that skips one row and is cut short by the limit.
C7_Witness ==
    \E p \in Procs :
        /\ Returned(p, "list") /\ resp[p].status = 200
        /\ req[p].limit = Arg(<<"1">>) /\ req[p].offset = Arg(<<"1">>)
        /\ Cardinality(loc[p].snapshot) = 3
        /\ Len(resp[p].body.users) = 1

\* C8 as stated: a limit or offset that is no integer is answered 500
\* "Internal server error".
C8_BadArgIsInternalError ==
    \A p \in Procs :
        Returned(p, "list")
        /\ (NotInteger(req[p].limit) \/ NotInteger(req[p].offset))
        => resp[p] = InternalError

\* The value used for an argument: the default when it is absent or no integer.
Fallback(a, default) == IF NotInteger(a) THEN default ELSE Effective(a, default)

\* C8 amended: a limit or offset that is no integer is replaced by its
\* default (10, 0); with no database failure and no negative value the
\* request is answered 200 with the page for the values used.
C8_BadArgFallsBackToDefault ==
    \A p \in Procs :
        Returned(p, "list") /\ ~dbfail[p]
        /\ (NotInteger(req[p].limit) \/ NotInteger(req[p].offset))
        /\ Fallback(req[p].limit, DefaultLimit) >= 0
        /\ Fallback(req[p].offset, DefaultOffset) >= 0
        => ListAnswers(p, Fallback(req[p].limit, DefaultLimit),
                          Fallback(req[p].offset, DefaultOffset))

\* C8 witness: limit=x is answered 200 with limit 10 and a page that is not
\* empty.
C8_Witness ==
    \E p \in Procs :
        /\ Returned(p, "list") /\ NotInteger(req[p].limit)
        /\ resp[p].status = 200 /\ resp[p].body.limit = DefaultLimit
        /\ resp[p].body.users # <<>>

\* C9: GET /health is answered 200 "healthy" exactly when connect and close
\* both succeed and 503 "unhealthy" otherwise; a probe received while the
\* database is unreachable is answered 503; the probe holds no connection
\* when it returns.
C9_HealthReflectsDatabase ==
    \A p \in Procs :
        Returned(p, "health") =>
            /\ resp[p].status \in {200, 503}
            /\ resp[p].status = 200 <=> ~dbfail[p]
            /\ resp[p].status = 200 => resp[p].body.status = "healthy"
            /\ resp[p].status = 503 => resp[p].body.status = "unhealthy"
            /\ ~req[p].up => resp[p].status = 503
            /\ req[p].up /\ ~dbfail[p] => resp[p].status = 200
            /\ conn[p] # "open"

\* C9 witness: a probe that is the second request of a run is answered 503
\* while the database is unreachable.
C9_Witness ==
    \E p \in Procs :
        /\ Returned(p, "health") /\ ~req[p].up /\ now = 2
        /\ resp[p].status = 503 /\ leaked = 0

\* C10: POST /user is answered 500 only when a driver call fails: a JSON
\* object or array holding both keys is answered 400 or 201 otherwise,
\* whatever the types of the two values.
C10_InternalErrorOnlyOnDbFailure ==
    \A p \in Procs :
        Returned(p, "create") /\ ~dbfail[p]
        /\ req[p].body.t \in {"object", "array"}
        /\ Keys \subseteq req[p].body.keys
        => resp[p].status \in {400, 201}

====
